---- MODULE Spec2Model ----
(***************************************************************************)
(* Model of the diary entry store of personal-diary-app                    *)
(* (src/src/hooks/use-diary-store.ts and its earlier variants).            *)
(*                                                                         *)
(* Three variants of the store are modelled, selected by `backend`:        *)
(*   "live"    remote store with a live onSnapshot subscription            *)
(*             (use-diary-store.ts lines 1-169)                            *)
(*   "oneshot" remote store with a one-shot async getDocs load and an      *)
(*             awaited import batch (unnamed/part_001)                    *)
(*   "local"   localStorage store (use-diary-store.ts lines 171-296)       *)
(*                                                                         *)
(* Strings that the code takes apart (tag strings, tags, search terms)     *)
(* are sequences of one-character strings; strings the store only carries  *)
(* around (ids, dates, titles, contents) are TLA+ strings, which the       *)
(* filtered view reads through the tables Text and ParseISO.               *)
(*                                                                         *)
(* Specifications:                                                         *)
(*   Spec      the store and the settings page's import and export         *)
(*   SpecView  the filtered view over stores, search terms and dates       *)
(*   SpecTags  the new-entry form submitted to addEntry                    *)
(*   SpecSetters  setSearchTerm and setSelectedDate among store actions    *)
(*   SpecPrompt   the writing-prompt request of the entry form             *)
(*   SpecSync     the remote stores under a fair backend (liveness)        *)
(*   SpecImport   importEntries of candidates without a tags field         *)
(*   SpecUsers    a remote store initialized for two users in turn         *)
(***************************************************************************)
EXTENDS Integers, Sequences, FiniteSets, TLC

VARIABLES
    backend,      \* which variant of the store this process runs
    entries,      \* DiaryState.entries
    tags,         \* DiaryState.tags
    initialized,  \* DiaryState.initialized
    remote,       \* the user's remote collection: document id -> data
    pending,      \* remote writes sent and not yet answered (FIFO)
    settled,      \* import batches answered, continuation not yet run
    subs,         \* number of live onSnapshot subscriptions
    loads,        \* number of getDocs reads in flight
    storage,      \* localStorage value under DIARY_STORAGE_KEY
    errors,       \* 'permission-error' events emitted / promises rejected
    used,         \* ids handed out so far by the id generators
    returned,     \* history: ids returned by addEntry, in call order
    onlyAdds,     \* history: no store action other than addEntry ran yet
    calls,        \* history: number of store actions called so far
    persisted,    \* history: every entry the collection has held so far
    issued,       \* history: number of loads and subscriptions issued
    rejected,     \* history: writes rejected since the last store action
    searchTerm,   \* DiaryState.searchTerm
    selectedDate, \* DiaryState.selectedDate
    formValues,   \* the values of the new-entry form
    promptAction, \* the last getWritingPromptAction call and what it returned
    subscribed,   \* user ids the live subscriptions and pending loads are for
    last          \* history: the last step taken

vars == <<backend, entries, tags, initialized, remote, pending, settled, subs,
          loads, storage, errors, used, returned, onlyAdds, calls, persisted,
          issued, rejected, searchTerm, selectedDate, formValues,
          promptAction, subscribed, last>>

----------------------------------------------------------------------------
(* Bounds *)

MaxEntries == 2   \* addEntry is offered while fewer entries are in memory
MaxPending == 1   \* remote writes in flight
MaxImports == 1   \* import batches in flight (sent or settled)
MaxErrors  == 1   \* error events recorded
MaxSubs    == 2   \* initialize calls that subscribe / load
MaxCalls   == 3   \* store actions called in one run

----------------------------------------------------------------------------
(* Values *)

Missing == "<missing>"   \* an absent property (JS undefined)
NoDoc   == [id |-> Missing, date |-> Missing, title |-> Missing,
            content |-> Missing, tags |-> <<>>]

GenIds    == {"g1", "g2", "g3", "g4"}   \* ids the generators can hand out
ImportIds == {"a", "b"}                  \* ids found in import files
Ids       == GenIds \cup ImportIds
IdOrder   == <<"a", "b", "g1", "g2", "g3", "g4">>  \* document-id order

\* The characters of tag strings, tags and search terms, in code-unit order;
\* after them the undefined that sort() puts behind every string.
Chars == <<" ", ",", "C", "T", "U", "W", "c", "k", "o", "r", "t", "u", "w",
           "x", "y", Missing>>
TagX  == <<"x">>
TagY  == <<"y">>
TagWork == <<"w", "o", "r", "k">>
TagWo == <<"W", "o">>

\* selectedDate: undefined
Unset == <<>>

\* tags of an object that has no tags property: entry.tags is undefined, and
\* flatMap(entry => entry.tags) puts that undefined into the array it builds.
NoTags == << <<Missing>> >>

\* Position of character c in the code-unit order.
CharRank(c) == CHOOSE i \in 1..Len(Chars) : Chars[i] = c

----------------------------------------------------------------------------
(* String and array helpers of the JavaScript runtime the store relies on *)

\* String.prototype < as used by Array.prototype.sort(): code-unit
\* lexicographic order, a proper prefix first.
RECURSIVE StrLess(_, _)
StrLess(s, t) ==
    IF Len(t) = 0 THEN FALSE
    ELSE IF Len(s) = 0 THEN TRUE
    ELSE IF CharRank(Head(s)) < CharRank(Head(t)) THEN TRUE
    ELSE IF CharRank(Head(s)) > CharRank(Head(t)) THEN FALSE
    ELSE StrLess(Tail(s), Tail(t))

\* String.prototype.trim()
RECURSIVE TrimLeft(_)
TrimLeft(s) ==
    IF Len(s) > 0 /\ Head(s) = " " THEN TrimLeft(Tail(s)) ELSE s

RECURSIVE TrimRight(_)
TrimRight(s) ==
    IF Len(s) > 0 /\ s[Len(s)] = " "
    THEN TrimRight(SubSeq(s, 1, Len(s) - 1)) ELSE s

Trim(s) == TrimRight(TrimLeft(s))

\* String.prototype.split(','): the pieces between commas, empty ones kept.
RECURSIVE SplitFrom(_, _, _)
SplitFrom(s, cur, acc) ==
    IF Len(s) = 0 THEN Append(acc, cur)
    ELSE IF Head(s) = "," THEN SplitFrom(Tail(s), <<>>, Append(acc, cur))
    ELSE SplitFrom(Tail(s), Append(cur, Head(s)), acc)

Split(s) == SplitFrom(s, <<>>, <<>>)

\* Array.prototype.map(t => t.trim())
MapTrim(ps) == [i \in 1..Len(ps) |-> Trim(ps[i])]

FilterNothing(ps) == ps

\* Array.prototype.filter(Boolean) on strings: the empty string is falsy.
FilterBoolean(ps) == SelectSeq(ps, LAMBDA p : Len(p) > 0)

\* newEntry.tags.split(',').map(t => t.trim()).filter(Boolean)
ParseTags(str) == FilterBoolean(MapTrim(Split(str)))

\* [...new Set(xs)]: first occurrences, in insertion order.
RECURSIVE DedupFrom(_, _)
DedupFrom(xs, acc) ==
    IF Len(xs) = 0 THEN acc
    ELSE IF \E i \in 1..Len(acc) : acc[i] = Head(xs)
         THEN DedupFrom(Tail(xs), acc)
         ELSE DedupFrom(Tail(xs), Append(acc, Head(xs)))

Dedup(xs) == DedupFrom(xs, <<>>)

\* Array.prototype.sort() with the default comparison.
RECURSIVE InsertSorted(_, _)
InsertSorted(x, ys) ==
    IF Len(ys) = 0 THEN <<x>>
    ELSE IF StrLess(x, Head(ys)) THEN <<x>> \o ys
    ELSE <<Head(ys)>> \o InsertSorted(x, Tail(ys))

RECURSIVE SortStrings(_)
SortStrings(xs) ==
    IF Len(xs) = 0 THEN <<>>
    ELSE InsertSorted(xs[Len(xs)], SortStrings(SubSeq(xs, 1, Len(xs) - 1)))

\* entries.flatMap(entry => entry.tags)
RECURSIVE FlatMapTags(_)
FlatMapTags(es) ==
    IF Len(es) = 0 THEN <<>> ELSE Head(es).tags \o FlatMapTags(Tail(es))

GetTagsNoDedup(es) == SortStrings(FlatMapTags(es))

\* getTagsFromEntries
getTagsFromEntries(es) == SortStrings(Dedup(FlatMapTags(es)))

----------------------------------------------------------------------------
(* Entry collections *)

IdsOf(es) == {es[i].id : i \in 1..Len(es)}
HasId(es, id) == \E i \in 1..Len(es) : es[i].id = id

\* draft.findIndex(e => e.id === id); 0 stands for -1
FindIndex(es, id) ==
    IF HasId(es, id)
    THEN CHOOSE i \in 1..Len(es) :
             es[i].id = id /\ \A j \in 1..(i - 1) : es[j].id # id
    ELSE 0


MapSetKeepFirst(m, e) == IF HasId(m, e.id) THEN m ELSE Append(m, e)

\* new Map(...).set(e.id, e): a known key keeps its position and takes the
\* new value, a new key goes to the end.
MapSet(m, e) ==
    IF HasId(m, e.id)
    THEN [i \in 1..Len(m) |-> IF m[i].id = e.id THEN e ELSE m[i]]
    ELSE Append(m, e)

RECURSIVE MapSetAll(_, _)
MapSetAll(m, es) ==
    IF Len(es) = 0 THEN m ELSE MapSetAll(MapSet(m, Head(es)), Tail(es))

ConcatEntries(cur, valid) == cur \o valid

\* Array.from(new Map([...cur, ...valid].map(e => [e.id, e])).values())
\* (the remote store builds the same map in two steps)
MergeById(cur, valid) == MapSetAll(<<>>, cur \o valid)

\* JavaScript truthiness of a string-or-absent property
Truthy(v) == v # Missing /\ v # ""

ContentTruthyFilter(newEntries) ==
    SelectSeq(newEntries, LAMBDA e :
        Truthy(e.id) /\ Truthy(e.date) /\ Truthy(e.title) /\ Truthy(e.content))

\* newEntries.filter(e => e.id && e.date && e.title &&
\*                        typeof e.content !== 'undefined')
ValidEntries(newEntries) ==
    SelectSeq(newEntries, LAMBDA e :
        Truthy(e.id) /\ Truthy(e.date) /\ Truthy(e.title)
        /\ e.content # Missing)

\* Array.isArray(t) ? t : t.toString().split(',').map(trim).filter(Boolean)
NormalizeUpdateTags(t) == IF t.isArray THEN t.v ELSE ParseTags(t.v)

UpsertById(es, e) == MapSet(es, e)

\* produce(entries, draft => { index = findIndex(...);
\*                             if (index !== -1) draft[index] = e })
ReplaceById(es, e) ==
    LET index == FindIndex(es, e.id)
    IN  IF index # 0 THEN [es EXCEPT ![index] = e] ELSE es

SpliceById(es, id) ==
    LET index == IF FindIndex(es, id) = 0 THEN Len(es) ELSE FindIndex(es, id)
    IN  SubSeq(es, 1, index - 1) \o SubSeq(es, index + 1, Len(es))

\* entries.filter(e => e.id !== id)
RemoveById(es, id) == SelectSeq(es, LAMBDA e : e.id # id)

PushSame(es, e) == IF Len(es) = 0 THEN <<e>> ELSE [es EXCEPT ![Len(es)] = e]

\* produce(entries, draft => { draft.push(entry) })
PushEntry(es, e) == Append(es, e)

----------------------------------------------------------------------------
(* The remote collection users/<uid>/diaryEntries *)

CollectionPath == "users/u/diaryEntries"

DIARY_STORAGE_KEY == "core-diary-entries"

EmptyRemote == [d \in Ids |-> NoDoc]

RECURSIVE DocsFrom(_, _)
DocsFrom(r, order) ==
    IF Len(order) = 0 THEN <<>>
    ELSE IF r[Head(order)] # NoDoc
         THEN <<[r[Head(order)] EXCEPT !.id = Head(order)]>>
              \o DocsFrom(r, Tail(order))
         ELSE DocsFrom(r, Tail(order))

\* snapshot.docs.map(doc => ({ ...doc.data(), id: doc.id }))
SnapshotEntries(r) == DocsFrom(r, IdOrder)

\* set(docRef, data, { merge: true }): the fields given replace the stored
\* ones, a document that does not exist is created.
SetMerge(old, data) ==
    [f \in DOMAIN data |->
        IF f = "tags"
        THEN IF data[f] # NoTags \/ old = NoDoc THEN data[f] ELSE old[f]
        ELSE IF data[f] # Missing THEN data[f] ELSE old[f]]

RECURSIVE ApplyBatch(_, _)
ApplyBatch(r, es) ==
    IF Len(es) = 0 THEN r
    ELSE ApplyBatch([r EXCEPT ![Head(es).id] = SetMerge(@, Head(es))],
                    Tail(es))

NoBatch == <<>>

Write(kind, doc, data, valid, cands, stale) ==
    [kind |-> kind, doc |-> doc, data |-> data,
     valid |-> valid, cands |-> cands, stale |-> stale]

\* addDocumentNonBlocking(colRef, data): add-one, the adapter creates a new
\* document of the collection under an id of its own.
AddDocumentNonBlocking(doc, data) ==
    Write("add", doc, data, NoBatch, NoBatch, NoBatch)

\* setDocumentNonBlocking(docRef, data, { merge: true })
SetDocumentNonBlocking(doc, data) ==
    Write("set", doc, data, NoBatch, NoBatch, NoBatch)

\* deleteDocumentNonBlocking(docRef)
DeleteDocumentNonBlocking(doc) ==
    Write("delete", doc, NoDoc, NoBatch, NoBatch, NoBatch)

\* writeBatch(db) + batch.set(...) for every valid entry + batch.commit()
BatchCommit(valid, cands, stale) ==
    Write("batch", "", NoDoc, valid, cands, stale)

\* What the backend does with an accepted write.
ApplyWrite(r, w) ==
    CASE w.kind = "add"    -> [r EXCEPT ![w.doc] = w.data]
      [] w.kind = "set"    -> [r EXCEPT ![w.doc] = SetMerge(@, w.data)]
      [] w.kind = "delete" -> [r EXCEPT ![w.doc] = NoDoc]
      [] w.kind = "batch"  -> ApplyBatch(r, w.valid)

ErrorEvent(via, operation) ==
    [via |-> via, operation |-> operation, path |-> CollectionPath]


----------------------------------------------------------------------------
(* Inputs *)

Entry(id, date, title, content, tgs) ==
    [id |-> id, date |-> date, title |-> title, content |-> content,
     tags |-> tgs]

\* new Date().toISOString() at the n-th addEntry of the process: the clock
\* moves on between two calls.
Clock == <<"2024-01-03", "2024-01-04", "2024-01-05", "2024-01-06">>

\* Drafts handed to addEntry: title, content and a comma-separated tag string.
AddDrafts ==
    { [title |-> "T", content |-> "C", tags |-> <<"x">>],
      [title |-> "T", content |-> "C",
       tags |-> <<"y", ",", " ", "x", " ", ",", "x">>] }

\* defaultValues of the new-entry form
BlankForm == [title |-> "", content |-> "", tags |-> <<>>]

\* getWritingPromptAction has not been called.
NoPrompt == [pastEntries |-> "", flowInputs |-> <<>>,
             result |-> [prompt |-> Missing, error |-> Missing]]

\* Entries handed to updateEntry for the id given: tags as an array or, as
\* the code allows, as one comma-separated string.
UpdateArgs(id) ==
    { [id |-> id, date |-> "2024-01-02", title |-> "U", content |-> "C",
       tags |-> [isArray |-> TRUE, v |-> <<TagY>>]],
      [id |-> id, date |-> "2024-01-01", title |-> "U", content |-> "C",
       tags |-> [isArray |-> FALSE, v |-> <<"x", ",", " ", "y">>]] }

\* Candidates found in import files.
CandA    == Entry("a", "2024-01-01", "T", "C", <<TagX>>)
CandA2   == Entry("a", "2024-01-02", "U", "", <<TagY, TagX>>)
CandB    == Entry("b", "2024-01-01", "T", "", <<>>)
NoId     == Entry("", "2024-01-01", "T", "C", <<TagY>>)
NoDate   == Entry("b", Missing, "T", "C", <<TagY>>)
NoTitle  == Entry("b", "2024-01-01", "", "C", <<TagY>>)
NoContent == Entry("b", "2024-01-01", "T", Missing, <<TagY>>)
Tagless  == Entry("b", "2024-01-02", "T", "C", NoTags)

ImportLists ==
    { <<CandA>>, <<CandA2>>, <<CandA, CandA2>>, <<CandB, NoTitle>>,
      <<NoContent, CandA>>, <<NoId, NoDate>>, <<CandB, CandA2>> }

\* Import files with an object that has no tags property.
TaglessLists == { <<Tagless>>, <<CandA, Tagless>> }

\* What a process can find when it starts: an empty or a used collection,
\* an unset or a used storage key.
InitRemotes  == { EmptyRemote, [EmptyRemote EXCEPT !["a"] = CandA] }
NoStorage    == [present |-> FALSE, readable |-> TRUE, value |-> <<>>]
Stored(es)   == [present |-> TRUE, readable |-> TRUE, value |-> es]
\* a value under the key that JSON.parse cannot read
Unreadable   == [present |-> TRUE, readable |-> FALSE, value |-> <<>>]
InitStorages == { NoStorage, Stored(<<CandA>>), Unreadable }

\* The user whose store Spec follows, and another user of the same browser
\* with a collection of their own.
User       == "u"
OtherUser  == "v"
Users      == {User, OtherUser}
OtherRemote == [EmptyRemote EXCEPT !["b"] = CandB]

IsRemote == backend \in {"live", "oneshot"}

\* A store action is called (the runs explored call at most MaxCalls); what
\* was rejected before is no longer the latest the user did.
Called == calls < MaxCalls /\ calls' = calls + 1 /\ rejected' = <<>>
Step(op, id, cands) == [op |-> op, id |-> id, cands |-> cands]

Init ==
    /\ backend \in {"live", "oneshot", "local"}
    /\ entries = <<>>
    /\ tags = <<>>
    /\ initialized = FALSE
    /\ remote \in (IF backend = "local" THEN {EmptyRemote} ELSE InitRemotes)
    /\ storage \in (IF backend = "local" THEN InitStorages ELSE {NoStorage})
    /\ pending = <<>>
    /\ settled = <<>>
    /\ subs = 0
    /\ loads = 0
    /\ errors = <<>>
    /\ used = {}
    /\ returned = <<>>
    /\ onlyAdds = TRUE
    /\ calls = 0
    /\ persisted = {SnapshotEntries(remote)[i] :
                        i \in 1..Len(SnapshotEntries(remote))}
    /\ issued = 0
    /\ rejected = <<>>
    /\ searchTerm = <<>>
    /\ selectedDate = Unset
    /\ formValues = BlankForm
    /\ promptAction = NoPrompt
    /\ subscribed = <<>>
    /\ last = Step("init", "", <<>>)

----------------------------------------------------------------------------
(* Local persistence *)

EntryFields == {"id", "date", "title", "content", "tags"}

\* An entry as JSON.stringify writes it, without the date.
StringifyNoDate(e) ==
    [f \in {g \in EntryFields \ {"date"} : g = "tags" \/ e[g] # Missing} |->
        e[f]]

\* JSON.stringify of one entry: an object holding the properties that are
\* not undefined.
StringifyEntry(e) ==
    [f \in {g \in EntryFields : g = "tags" \/ e[g] # Missing} |-> e[f]]

\* Reading a property the parsed object does not have gives undefined.
ParseEntry(obj) ==
    [f \in EntryFields |-> IF f \in DOMAIN obj THEN obj[f] ELSE Missing]

\* getEntriesFromStorage: entriesJson ? JSON.parse(entriesJson) : []
getEntriesFromStorage(st) ==
    IF st.present
    THEN [i \in 1..Len(st.value) |-> ParseEntry(st.value[i])]
    ELSE <<>>

SkipSave(es) == storage

\* saveEntriesToStorage: localStorage.setItem(KEY, JSON.stringify(entries))
saveEntriesToStorage(es) ==
    Stored([i \in 1..Len(es) |-> StringifyEntry(es[i])])

----------------------------------------------------------------------------
(* initialize *)

\* collection(db, `users/${userId}/diaryEntries`) as the backend holds it.
CollectionOf(userId) == IF userId = User THEN remote ELSE OtherRemote

\* The sequence without its k-th element.
RemoveAt(seq, k) == SubSeq(seq, 1, k - 1) \o SubSeq(seq, k + 1, Len(seq))

\* initialize of the live store: subscribes unless the ready flag is set.
InitializeLive(userId) ==
    /\ backend = "live"
    /\ \/ /\ initialized
          /\ UNCHANGED <<subs, issued, subscribed>>
       \/ /\ ~initialized
          /\ subs < MaxSubs
          /\ subs' = subs + 1
          /\ subscribed' = Append(subscribed, userId)
          /\ issued' = issued + 1
    /\ onlyAdds' = FALSE
    /\ last' = Step("initialize", userId, <<>>)
    /\ Called
    /\ UNCHANGED persisted
    /\ UNCHANGED <<promptAction, formValues, selectedDate, searchTerm,
                   backend, entries, tags, initialized, remote, pending,
                   settled, loads, storage, errors, used, returned>>

\* initialize of the one-shot store, up to its await getDocs(...).
InitializeOneShot(userId) ==
    /\ backend = "oneshot"
    /\ \/ /\ initialized
          /\ UNCHANGED <<loads, issued, subscribed>>
       \/ /\ ~initialized
          /\ loads < MaxSubs
          /\ loads' = loads + 1
          /\ subscribed' = Append(subscribed, userId)
          /\ issued' = issued + 1
    /\ onlyAdds' = FALSE
    /\ last' = Step("initialize", userId, <<>>)
    /\ Called
    /\ UNCHANGED persisted
    /\ UNCHANGED <<promptAction, formValues, selectedDate, searchTerm,
                   backend, entries, tags, initialized, remote, pending,
                   settled, subs, storage, errors, used, returned>>

\* initialize of the local store.
InitializeLocal ==
    /\ backend = "local"
    /\ IF initialized
       THEN UNCHANGED <<entries, tags, initialized, issued>>
       ELSE /\ storage.readable
            /\ issued' = issued + 1
            /\ entries' = getEntriesFromStorage(storage)
            /\ tags' = getTagsFromEntries(entries')
            /\ initialized' = TRUE
    /\ onlyAdds' = FALSE
    /\ last' = Step("initialize", "", <<>>)
    /\ Called
    /\ UNCHANGED persisted
    /\ UNCHANGED <<subscribed, promptAction, formValues, selectedDate,
                   searchTerm, backend, remote, pending, settled, subs, loads,
                   storage, errors, used, returned>>

\* An exception leaves a local store action: the state is as before the call.
Thrown(operation) ==
    /\ backend = "local"
    /\ Len(errors) < MaxErrors
    /\ errors' = Append(errors, [via |-> "thrown", operation |-> operation,
                                 path |-> DIARY_STORAGE_KEY])
    /\ onlyAdds' = FALSE
    /\ last' = Step("thrown", operation, <<>>)
    /\ Called
    /\ UNCHANGED <<subscribed, promptAction, formValues, selectedDate,
                   searchTerm, backend, entries, tags, initialized, remote,
                   pending, settled, subs, loads, storage, returned,
                   persisted>>

\* initialize of the local store when JSON.parse throws on the stored value:
\* nothing catches it, set is not reached.
InitializeLocalThrows ==
    /\ ~initialized
    /\ ~storage.readable
    /\ issued' = issued + 1
    /\ Thrown("initialize")
    /\ UNCHANGED used

\* The onSnapshot success callback: the subscription delivers the current
\* collection.
Snapshot ==
    /\ backend = "live"
    /\ subs > 0
    /\ \E k \in 1..Len(subscribed) :
           /\ entries' = SnapshotEntries(CollectionOf(subscribed[k]))
           /\ last' = Step("snapshot", subscribed[k], <<>>)
    /\ tags' = getTagsFromEntries(entries')
    /\ initialized' = TRUE
    /\ onlyAdds' = FALSE
    /\ UNCHANGED <<subscribed, promptAction, formValues, selectedDate,
                   searchTerm, rejected, issued, calls, persisted, backend,
                   remote, pending, settled, subs, loads, storage, errors,
                   used, returned>>

\* The onSnapshot error callback: the listener fails and ends.
SnapshotError ==
    /\ backend = "live"
    /\ subs > 0
    /\ Len(errors) < MaxErrors
    /\ errors' = Append(errors, ErrorEvent("event", "list"))
    /\ subs' = subs - 1
    /\ \E k \in 1..Len(subscribed) : subscribed' = RemoveAt(subscribed, k)
    /\ onlyAdds' = FALSE
    /\ last' = Step("snapshotError", "", <<>>)
    /\ UNCHANGED <<promptAction, formValues, selectedDate, searchTerm,
                   rejected, issued, calls, persisted, backend, entries, tags,
                   initialized, remote, pending, settled, loads, storage,
                   used, returned>>

\* The caller invokes the unsubscribe handle initialize returned.
Unsubscribe ==
    /\ backend = "live"
    /\ subs > 0
    /\ subs' = subs - 1
    /\ \E k \in 1..Len(subscribed) :
           /\ subscribed' = RemoveAt(subscribed, k)
           /\ last' = Step("unsubscribe", subscribed[k], <<>>)
    /\ onlyAdds' = FALSE
    /\ Called
    /\ UNCHANGED persisted
    /\ UNCHANGED <<promptAction, formValues, selectedDate, searchTerm, issued,
                   backend, entries, tags, initialized, remote, pending,
                   settled, loads, storage, errors, used, returned>>

\* initialize of the one-shot store after getDocs resolved.
LoadResolve ==
    /\ backend = "oneshot"
    /\ loads > 0
    /\ loads' = loads - 1
    /\ \E k \in 1..Len(subscribed) :
           /\ entries' = SnapshotEntries(CollectionOf(subscribed[k]))
           /\ subscribed' = RemoveAt(subscribed, k)
           /\ last' = Step("load", subscribed[k], <<>>)
    /\ tags' = getTagsFromEntries(entries')
    /\ initialized' = TRUE
    /\ onlyAdds' = FALSE
    /\ UNCHANGED <<promptAction, formValues, selectedDate, searchTerm,
                   rejected, issued, calls, persisted, backend, remote,
                   pending, settled, subs, storage, errors, used, returned>>

\* getDocs rejected: the async initialize rejects, nothing is set.
LoadReject ==
    /\ backend = "oneshot"
    /\ loads > 0
    /\ Len(errors) < MaxErrors
    /\ loads' = loads - 1
    /\ \E k \in 1..Len(subscribed) : subscribed' = RemoveAt(subscribed, k)
    /\ errors' = Append(errors, ErrorEvent("rejection", "list"))
    /\ onlyAdds' = FALSE
    /\ last' = Step("loadError", "", <<>>)
    /\ UNCHANGED <<promptAction, formValues, selectedDate, searchTerm,
                   rejected, issued, calls, persisted, backend, entries, tags,
                   initialized, remote, pending, settled, subs, storage, used,
                   returned>>


----------------------------------------------------------------------------
(* addEntry, updateEntry, deleteEntry *)

\* doc(entriesCol).id, crypto.randomUUID() and the id the adapter gives an
\* added document: an id no generator handed out before. Ids are opaque to
\* the store, so the generators hand them out in a fixed order.
FreshIds(u) ==
    IF GenIds \ u = {} THEN {}
    ELSE {IdOrder[CHOOSE i \in 1..Len(IdOrder) :
              /\ IdOrder[i] \in GenIds \ u
              /\ \A j \in 1..(i - 1) : IdOrder[j] \notin GenIds \ u]}

\* new Date().toISOString()
Now == Clock[Len(returned) + 1]

\* Ids a caller can name: the ones the store shows, the ones addEntry
\* returned, and one it made up.
KnownIds == IdsOf(entries) \cup {returned[i] : i \in 1..Len(returned)} \cup {"b"}

\* The entry addEntry builds from the draft.
NewEntry(draft, id, date) ==
    Entry(id, date, draft.title, draft.content, ParseTags(draft.tags))

\* addEntry of the remote stores.
AddEntryRemote(draft) ==
    /\ IsRemote
    /\ Len(entries) < MaxEntries
    /\ Len(pending) < MaxPending
    /\ \E id \in FreshIds(used) : \E docId \in FreshIds(used \cup {id}) :
        LET entry == NewEntry(draft, id, Now)
            updatedEntries == PushEntry(entries, entry)
        IN  /\ pending' = Append(pending, AddDocumentNonBlocking(docId, entry))
            /\ entries' = updatedEntries
            /\ tags' = getTagsFromEntries(updatedEntries)
            /\ used' = used \cup {id, docId}
            /\ returned' = Append(returned, id)
            /\ last' = Step("addEntry", id, <<>>)
    /\ Called
    /\ UNCHANGED persisted
    /\ UNCHANGED <<subscribed, promptAction, formValues, selectedDate,
                   searchTerm, issued, backend, initialized, remote, settled,
                   subs, loads, storage, errors, onlyAdds>>

\* addEntry of the local store.
AddEntryLocal(draft) ==
    /\ backend = "local"
    /\ Len(entries) < MaxEntries
    /\ \E id \in FreshIds(used) :
        LET entry == NewEntry(draft, id, Now)
            updatedEntries == PushEntry(entries, entry)
        IN  /\ storage' = saveEntriesToStorage(updatedEntries)
            /\ entries' = updatedEntries
            /\ tags' = getTagsFromEntries(updatedEntries)
            /\ used' = used \cup {id}
            /\ returned' = Append(returned, id)
            /\ last' = Step("addEntry", id, <<>>)
    /\ Called
    /\ UNCHANGED persisted
    /\ UNCHANGED <<subscribed, promptAction, formValues, selectedDate,
                   searchTerm, issued, backend, initialized, remote, pending,
                   settled, subs, loads, errors, onlyAdds>>

\* addEntry of the local store when localStorage.setItem throws (quota):
\* the id is drawn, set and return are not reached.
AddEntryLocalThrows ==
    /\ Len(entries) < MaxEntries
    /\ \E id \in FreshIds(used) : used' = used \cup {id}
    /\ Thrown("addEntry")
    /\ UNCHANGED issued

\* updateEntry, deleteEntry or importEntries of the local store when
\* localStorage.setItem throws: set is not reached.
SaveThrows(operation) ==
    /\ Thrown(operation)
    /\ UNCHANGED <<issued, used>>

\* entryData of updateEntry
EntryData(updatedEntry) ==
    Entry(updatedEntry.id, updatedEntry.date, updatedEntry.title,
          updatedEntry.content, NormalizeUpdateTags(updatedEntry.tags))

\* updateEntry of the remote stores.
UpdateEntryRemote(updatedEntry) ==
    /\ IsRemote
    /\ Len(pending) < MaxPending
    /\ LET entryData == EntryData(updatedEntry)
           updatedEntries == ReplaceById(entries, entryData)
       IN  /\ pending' = Append(pending,
                            SetDocumentNonBlocking(updatedEntry.id, entryData))
           /\ entries' = updatedEntries
           /\ tags' = getTagsFromEntries(updatedEntries)
    /\ onlyAdds' = FALSE
    /\ last' = Step("updateEntry", updatedEntry.id, <<>>)
    /\ Called
    /\ UNCHANGED persisted
    /\ UNCHANGED <<subscribed, promptAction, formValues, selectedDate,
                   searchTerm, issued, backend, initialized, remote, settled,
                   subs, loads, storage, errors, used, returned>>

\* updateEntry of the local store.
UpdateEntryLocal(updatedEntry) ==
    /\ backend = "local"
    /\ LET updatedEntries == ReplaceById(entries, EntryData(updatedEntry))
       IN  /\ storage' = saveEntriesToStorage(updatedEntries)
           /\ entries' = updatedEntries
           /\ tags' = getTagsFromEntries(updatedEntries)
    /\ onlyAdds' = FALSE
    /\ last' = Step("updateEntry", updatedEntry.id, <<>>)
    /\ Called
    /\ UNCHANGED persisted
    /\ UNCHANGED <<subscribed, promptAction, formValues, selectedDate,
                   searchTerm, issued, backend, initialized, remote, pending,
                   settled, subs, loads, errors, used, returned>>

\* deleteEntry of the remote stores.
DeleteEntryRemote(id) ==
    /\ IsRemote
    /\ Len(pending) < MaxPending
    /\ LET updatedEntries == RemoveById(entries, id)
       IN  /\ pending' = Append(pending, DeleteDocumentNonBlocking(id))
           /\ entries' = updatedEntries
           /\ tags' = getTagsFromEntries(updatedEntries)
    /\ onlyAdds' = FALSE
    /\ last' = Step("deleteEntry", id, <<>>)
    /\ Called
    /\ UNCHANGED persisted
    /\ UNCHANGED <<subscribed, promptAction, formValues, selectedDate,
                   searchTerm, issued, backend, initialized, remote, settled,
                   subs, loads, storage, errors, used, returned>>

\* deleteEntry of the local store.
DeleteEntryLocal(id) ==
    /\ backend = "local"
    /\ LET updatedEntries == RemoveById(entries, id)
       IN  /\ storage' = saveEntriesToStorage(updatedEntries)
           /\ entries' = updatedEntries
           /\ tags' = getTagsFromEntries(updatedEntries)
    /\ onlyAdds' = FALSE
    /\ last' = Step("deleteEntry", id, <<>>)
    /\ Called
    /\ UNCHANGED persisted
    /\ UNCHANGED <<subscribed, promptAction, formValues, selectedDate,
                   searchTerm, issued, backend, initialized, remote, pending,
                   settled, subs, loads, errors, used, returned>>

----------------------------------------------------------------------------
(* importEntries *)

ImportsInFlight ==
    Len(SelectSeq(pending, LAMBDA w : w.kind = "batch")) + Len(settled)

\* importEntries of the live store, up to batch.commit().
ImportEntriesLive(newEntries) ==
    /\ backend = "live"
    /\ Len(pending) < MaxPending
    /\ ImportsInFlight < MaxImports
    /\ LET validEntries == ValidEntries(newEntries)
       IN  pending' = Append(pending,
                          BatchCommit(validEntries, newEntries, NoBatch))
    /\ onlyAdds' = FALSE
    /\ last' = Step("importEntries", "", newEntries)
    /\ Called
    /\ UNCHANGED persisted
    /\ UNCHANGED <<subscribed, promptAction, formValues, selectedDate,
                   searchTerm, issued, backend, entries, tags, initialized,
                   remote, settled, subs, loads, storage, errors, used,
                   returned>>

\* importEntries of the one-shot store, up to await batch.commit(): the
\* merged list is computed before the await.
ImportEntriesOneShot(newEntries) ==
    /\ backend = "oneshot"
    /\ Len(pending) < MaxPending
    /\ ImportsInFlight < MaxImports
    /\ LET validEntries == ValidEntries(newEntries)
           uniqueEntries == MergeById(entries, validEntries)
       IN  pending' = Append(pending,
                          BatchCommit(validEntries, newEntries, uniqueEntries))
    /\ onlyAdds' = FALSE
    /\ last' = Step("importEntries", "", newEntries)
    /\ Called
    /\ UNCHANGED persisted
    /\ UNCHANGED <<subscribed, promptAction, formValues, selectedDate,
                   searchTerm, issued, backend, entries, tags, initialized,
                   remote, settled, subs, loads, storage, errors, used,
                   returned>>

\* importEntries of the local store.
ImportEntriesLocal(newEntries) ==
    /\ backend = "local"
    /\ LET validEntries == ValidEntries(newEntries)
           uniqueEntries == MergeById(entries, validEntries)
       IN  /\ storage' = saveEntriesToStorage(uniqueEntries)
           /\ entries' = uniqueEntries
           /\ tags' = getTagsFromEntries(uniqueEntries)
    /\ onlyAdds' = FALSE
    /\ last' = Step("importEntries", "", newEntries)
    /\ Called
    /\ UNCHANGED persisted
    /\ UNCHANGED <<subscribed, promptAction, formValues, selectedDate,
                   searchTerm, issued, backend, initialized, remote, pending,
                   settled, subs, loads, errors, used, returned>>

\* The .then callback of the live store's batch.commit().
ImportThenLive ==
    /\ backend = "live"
    /\ Len(settled) > 0
    /\ Head(settled).ok
    /\ LET uniqueEntries == MergeById(entries, Head(settled).valid)
       IN  /\ entries' = uniqueEntries
           /\ tags' = getTagsFromEntries(uniqueEntries)
    /\ rejected' = <<>>
    /\ settled' = Tail(settled)
    /\ onlyAdds' = FALSE
    /\ last' = Step("importCommit", "", Head(settled).cands)
    /\ UNCHANGED <<subscribed, promptAction, formValues, selectedDate,
                   searchTerm, issued, calls, persisted, backend, initialized,
                   remote, pending, subs, loads, storage, errors, used,
                   returned>>

\* The .catch callback of the live store's batch.commit().
ImportCatchLive ==
    /\ backend = "live"
    /\ Len(settled) > 0
    /\ ~Head(settled).ok
    /\ Len(errors) < MaxErrors
    /\ errors' = Append(errors, ErrorEvent("event", "write"))
    /\ settled' = Tail(settled)
    /\ onlyAdds' = FALSE
    /\ last' = Step("importFailed", "", Head(settled).cands)
    /\ UNCHANGED <<subscribed, promptAction, formValues, selectedDate,
                   searchTerm, rejected, issued, calls, persisted, backend,
                   entries, tags, initialized, remote, pending, subs, loads,
                   storage, used, returned>>

\* importEntries of the one-shot store after await batch.commit() returned.
ImportResumeOneShot ==
    /\ backend = "oneshot"
    /\ Len(settled) > 0
    /\ Head(settled).ok
    /\ LET uniqueEntries == Head(settled).stale
       IN  /\ entries' = uniqueEntries
           /\ tags' = getTagsFromEntries(uniqueEntries)
    /\ rejected' = <<>>
    /\ settled' = Tail(settled)
    /\ onlyAdds' = FALSE
    /\ last' = Step("importCommit", "", Head(settled).cands)
    /\ UNCHANGED <<subscribed, promptAction, formValues, selectedDate,
                   searchTerm, issued, calls, persisted, backend, initialized,
                   remote, pending, subs, loads, storage, errors, used,
                   returned>>

\* importEntries of the one-shot store when await batch.commit() threw: the
\* async action rejects.
ImportThrowOneShot ==
    /\ backend = "oneshot"
    /\ Len(settled) > 0
    /\ ~Head(settled).ok
    /\ Len(errors) < MaxErrors
    /\ errors' = Append(errors, ErrorEvent("rejection", "write"))
    /\ settled' = Tail(settled)
    /\ onlyAdds' = FALSE
    /\ last' = Step("importFailed", "", Head(settled).cands)
    /\ UNCHANGED <<subscribed, promptAction, formValues, selectedDate,
                   searchTerm, rejected, issued, calls, persisted, backend,
                   entries, tags, initialized, remote, pending, subs, loads,
                   storage, used, returned>>

----------------------------------------------------------------------------
(* The backend answers the writes in the order they were sent *)

SettleResolved(w, ok) ==
    [valid |-> w.valid, cands |-> w.cands, stale |-> w.stale, ok |-> TRUE]

\* batch.commit() settles: resolved when the backend accepted the batch,
\* rejected otherwise.
Settle(w, ok) ==
    [valid |-> w.valid, cands |-> w.cands, stale |-> w.stale, ok |-> ok]

\* The backend accepts the oldest write.
WriteAccept ==
    /\ IsRemote
    /\ Len(pending) > 0
    /\ remote' = ApplyWrite(remote, Head(pending))
    /\ settled' = IF Head(pending).kind = "batch"
                  THEN Append(settled, Settle(Head(pending), TRUE))
                  ELSE settled
    /\ pending' = Tail(pending)
    /\ last' = Step("accept", "", <<>>)
    /\ persisted' = persisted \cup {SnapshotEntries(remote')[i] :
                                         i \in 1..Len(SnapshotEntries(remote'))}
    /\ UNCHANGED <<subscribed, promptAction, formValues, selectedDate,
                   searchTerm, rejected, issued, calls, backend, entries,
                   tags, initialized, subs, loads, storage, errors, used,
                   returned, onlyAdds>>

\* The change addEntry, updateEntry or deleteEntry made in memory for the
\* write w is shown by the entries es.
Shows(w, es) ==
    CASE w.kind = "add"    -> \E i \in 1..Len(es) : es[i] = w.data
      [] w.kind = "set"    -> \E i \in 1..Len(es) : es[i] = w.data
      [] w.kind = "delete" -> ~HasId(es, w.doc)
      [] OTHER             -> FALSE

\* The write w of addEntry, updateEntry or deleteEntry left a change in es
\* that the collection r does not hold.
Optimistic(w, es, r) ==
    /\ Shows(w, es)
    /\ w.kind = "delete" => r[w.doc] # NoDoc

\* The backend rejects the oldest write; the non-blocking helpers report a
\* rejected add, set or delete as an error event.
WriteReject ==
    /\ IsRemote
    /\ Len(pending) > 0
    /\ IF Head(pending).kind = "batch"
       THEN /\ settled' = Append(settled, Settle(Head(pending), FALSE))
            /\ UNCHANGED errors
       ELSE /\ Len(errors) < MaxErrors
            /\ errors' = Append(errors, ErrorEvent("event", "write"))
            /\ UNCHANGED settled
    /\ pending' = Tail(pending)
    /\ rejected' = IF Optimistic(Head(pending), entries, remote)
                   THEN <<Head(pending)>>
                   ELSE <<>>
    /\ last' = Step("reject", "", <<>>)
    /\ UNCHANGED <<subscribed, promptAction, formValues, selectedDate,
                   searchTerm, issued, calls, persisted, backend, entries,
                   tags, initialized, remote, subs, loads, storage, used,
                   returned, onlyAdds>>

----------------------------------------------------------------------------
(* The filtered view: useFilteredEntries *)

\* The characters of a title or content string.
Text(str) ==
    CASE str = ""     -> <<>>
      [] str = "C"    -> <<"C">>
      [] str = "T"    -> <<"T">>
      [] str = "U"    -> <<"U">>
      [] str = "Work" -> <<"W", "o", "r", "k">>
      [] str = "row"  -> <<"r", "o", "w">>

ToLowerCaseChar(c) ==
    CASE c = "C" -> "c"
      [] c = "T" -> "t"
      [] c = "U" -> "u"
      [] c = "W" -> "w"
      [] OTHER   -> c

\* String.prototype.toLowerCase
ToLowerCase(s) == [i \in 1..Len(s) |-> ToLowerCaseChar(s[i])]

\* String.prototype.includes
Includes(s, t) ==
    \E k \in 0..(Len(s) - Len(t)) : SubSeq(s, k + 1, k + Len(t)) = t

\* parseISO(date).getTime(), in hours since 2024-01-01T00:00 of the time
\* zone of the process (UTC).
ParseISO(date) ==
    CASE date = "2024-01-01" -> 0
      [] date = "2024-01-01T09:00:00.000Z" -> 9
      [] date = "2024-01-01T21:00:00.000Z" -> 21
      [] date = "2024-01-02" -> 24
      [] date = "2024-01-03" -> 48
      [] date = "2024-01-04" -> 72
      [] date = "2024-01-05" -> 96
      [] date = "2024-01-06" -> 120

HoursPerDay == 24

StartOfDay(t) == t - (t % HoursPerDay)

\* isSameDay of date-fns: both instants have the same start of day.
isSameDay(dateLeft, dateRight) == StartOfDay(dateLeft) = StartOfDay(dateRight)

titleMatch(entry, searchLower) ==
    Includes(ToLowerCase(Text(entry.title)), searchLower)

contentMatch(entry, searchLower) ==
    Includes(ToLowerCase(Text(entry.content)), searchLower)

tagEquals(entry, searchLower) ==
    \E i \in 1..Len(entry.tags) : ToLowerCase(entry.tags[i]) = searchLower

tagMatch(entry, searchLower) ==
    \E i \in 1..Len(entry.tags) :
        Includes(ToLowerCase(entry.tags[i]), searchLower)

dateMatch(entry, date) ==
    date = Unset \/ isSameDay(ParseISO(entry.date), date[1])

\* entry.tags.some(...) is evaluated for every entry the filter visits: on
\* an entry whose tags is undefined it throws a TypeError.
FilterThrows(es) == \E i \in 1..Len(es) : es[i].tags = NoTags

\* The predicate handed to filter.
FilterFn(entry, term, date) ==
    LET searchLower == ToLowerCase(term)
    IN  /\ \/ titleMatch(entry, searchLower)
           \/ contentMatch(entry, searchLower)
           \/ tagMatch(entry, searchLower)
        /\ dateMatch(entry, date)

compareAscending(a, b) == ParseISO(a.date) - ParseISO(b.date)

\* The comparator handed to sort.
compareFn(a, b) == ParseISO(b.date) - ParseISO(a.date)

\* Array.prototype.sort is stable: x, which came later than every entry
\* of ys, goes behind the ones the comparator does not put after it.
RECURSIVE InsertByDate(_, _)
InsertByDate(x, ys) ==
    IF Len(ys) = 0 THEN <<x>>
    ELSE IF compareFn(Head(ys), x) <= 0
         THEN <<Head(ys)>> \o InsertByDate(x, Tail(ys))
         ELSE <<x>> \o ys

RECURSIVE SortFrom(_, _)
SortFrom(es, acc) ==
    IF Len(es) = 0 THEN acc
    ELSE SortFrom(Tail(es), InsertByDate(Head(es), acc))

SortByDate(es) == SortFrom(es, <<>>)

useFilteredEntries(es, term, date) ==
    SortByDate(SelectSeq(es, LAMBDA entry : FilterFn(entry, term, date)))

SetSearchTermSaves(term) ==
    /\ searchTerm' = term
    /\ storage' = saveEntriesToStorage(entries)
    /\ onlyAdds' = FALSE
    /\ last' = Step("setSearchTerm", "", <<>>)
    /\ Called
    /\ UNCHANGED <<subscribed, promptAction, formValues, backend, entries,
                   tags, initialized, remote, pending, settled, subs, loads,
                   errors, used, returned, persisted, issued, selectedDate>>

\* setSearchTerm: set({ searchTerm: term })
SetSearchTerm(term) ==
    /\ searchTerm' = term
    /\ onlyAdds' = FALSE
    /\ last' = Step("setSearchTerm", "", <<>>)
    /\ Called
    /\ UNCHANGED <<subscribed, promptAction, formValues, backend, entries,
                   tags, initialized, remote, pending, settled, subs, loads,
                   storage, errors, used, returned, persisted, issued,
                   selectedDate>>

\* setSelectedDate: set({ selectedDate: date })
SetSelectedDate(date) ==
    /\ selectedDate' = date
    /\ onlyAdds' = FALSE
    /\ last' = Step("setSelectedDate", "", <<>>)
    /\ Called
    /\ UNCHANGED <<subscribed, promptAction, formValues, backend, entries,
                   tags, initialized, remote, pending, settled, subs, loads,
                   storage, errors, used, returned, persisted, issued,
                   searchTerm>>

\* Entries, search terms and dates the view is evaluated on.
MaxView == 3

ViewA == Entry("a", "2024-01-01T09:00:00.000Z", "T", "C", <<TagWork>>)
ViewB == Entry("b", "2024-01-01T21:00:00.000Z", "Work", "C", <<>>)
ViewC == Entry("g1", "2024-01-02", "T", "row", <<TagX>>)
ViewD == Entry("g2", "2024-01-01T09:00:00.000Z", "U", "C", <<TagY, TagWo>>)

ViewPool == {ViewA, ViewB, ViewC, ViewD}

ViewStores ==
    {es \in UNION {[1..n -> ViewPool] : n \in 0..MaxView} :
        \A i, j \in 1..Len(es) : i # j => es[i].id # es[j].id}

Terms == { <<>>, <<"w", "o", "r", "k">>, <<"W", "o">>, <<"o", "w">>, <<"y">> }

SelectedDates == { Unset, <<0>>, <<24>>, <<37>>, <<72>> }

\* A local store that has loaded the entries its storage held.
InitView ==
    /\ backend = "local"
    /\ entries \in ViewStores
    /\ tags = getTagsFromEntries(entries)
    /\ initialized = TRUE
    /\ remote = EmptyRemote
    /\ storage = Stored(entries)
    /\ pending = <<>>
    /\ settled = <<>>
    /\ subs = 0
    /\ loads = 0
    /\ errors = <<>>
    /\ used = {}
    /\ returned = <<>>
    /\ onlyAdds = FALSE
    /\ calls = 1
    /\ persisted = {}
    /\ issued = 1
    /\ rejected = <<>>
    /\ searchTerm = <<>>
    /\ selectedDate = Unset
    /\ formValues = BlankForm
    /\ promptAction = NoPrompt
    /\ subscribed = <<>>
    /\ last = Step("initialize", "", <<>>)

NextView ==
    \/ \E term \in Terms : SetSearchTerm(term)
    \/ \E date \in SelectedDates : SetSelectedDate(date)

SpecView == InitView /\ [][NextView]_vars

----------------------------------------------------------------------------
(* Specification *)

Initialize(userId) ==
    InitializeLive(userId) \/ InitializeOneShot(userId) \/ InitializeLocal

AddEntry(draft) == AddEntryRemote(draft) \/ AddEntryLocal(draft)

UpdateEntry(e) == UpdateEntryRemote(e) \/ UpdateEntryLocal(e)

DeleteEntry(id) == DeleteEntryRemote(id) \/ DeleteEntryLocal(id)

ImportEntries(c) ==
    ImportEntriesLive(c) \/ ImportEntriesOneShot(c) \/ ImportEntriesLocal(c)

----------------------------------------------------------------------------
(* The new-entry form *)

MaxTagLen == 4

TagChars == {" ", ",", "x", "y"}

\* What the user can have typed into the tags field: every short string,
\* and one with a repeated tag, blanks on both sides and three segments.
TagStrings ==
    UNION {[1..n -> TagChars] : n \in 0..MaxTagLen}
        \cup {<<"x", ",", " ", "x", " ", ",", "y">>}

\* Form values that pass formSchema.
TagForms == {[title |-> "T", content |-> "C", tags |-> t] : t \in TagStrings}

\* onSubmit of the new-entry page: actions.addEntry({ title, content,
\* tags: values.tags || '' })
OnSubmit == AddEntry(formValues)

\* A store at its start, and a filled-in form.
InitTags ==
    /\ backend \in {"live", "oneshot", "local"}
    /\ entries = <<>>
    /\ tags = <<>>
    /\ initialized = FALSE
    /\ remote = EmptyRemote
    /\ storage = NoStorage
    /\ pending = <<>>
    /\ settled = <<>>
    /\ subs = 0
    /\ loads = 0
    /\ errors = <<>>
    /\ used = {}
    /\ returned = <<>>
    /\ onlyAdds = TRUE
    /\ calls = 0
    /\ persisted = {}
    /\ issued = 0
    /\ rejected = <<>>
    /\ searchTerm = <<>>
    /\ selectedDate = Unset
    /\ formValues \in TagForms
    /\ promptAction = NoPrompt
    /\ subscribed = <<>>
    /\ last = Step("init", "", <<>>)

NextTags == OnSubmit

SpecTags == InitTags /\ [][NextTags]_vars

----------------------------------------------------------------------------
(* Export and import of files on the settings page *)

\* JSON.stringify(entries, null, 2): the text of an array of objects.
JSONStringify(es) ==
    [parses |-> TRUE, isArray |-> TRUE,
     elements |-> [i \in 1..Len(es) |-> StringifyEntry(es[i])]]

\* JSON.parse(text) as DiaryEntry[] of a text that holds an array.
ImportedEntries(file) ==
    [i \in 1..Len(file.elements) |-> ParseEntry(file.elements[i])]

\* A file that is not JSON, and one that holds a JSON object, not an array.
BrokenFile == [parses |-> FALSE, isArray |-> FALSE, elements |-> <<>>]
ObjectFile == [parses |-> TRUE, isArray |-> FALSE, elements |-> <<>>]

\* handleExport: the file offered for download.
ExportFile == JSONStringify(entries)

\* The catch block of reader.onload: JSON.parse threw, or the handler threw
\* "Invalid file format. Expected an array of entries."; the toast
\* "Import Failed" is shown and importEntries is not called.
ImportFailed(file) ==
    /\ onlyAdds' = FALSE
    /\ last' = Step("importFileFailed",
                    IF file.parses THEN "not-array" ELSE "unparsable", <<>>)
    /\ Called
    /\ UNCHANGED <<subscribed, promptAction, formValues, backend, entries,
                   tags, initialized, remote, pending, settled, subs, loads,
                   storage, errors, used, returned, persisted, issued,
                   searchTerm, selectedDate>>

\* handleFileChange, reader.onload for the file picked.
HandleFileChange(file) ==
    \/ /\ file.parses
       /\ file.isArray
       /\ ImportEntries(ImportedEntries(file))
    \/ /\ ~(file.parses /\ file.isArray)
       /\ ImportFailed(file)

----------------------------------------------------------------------------
(* The prompt generator: getWritingPromptAction and the pages that call it *)

\* genericPrompts of getWritingPromptAction
genericPrompts ==
    << "What's on your mind today?",
       "Describe a small moment of joy you experienced recently.",
       "What is a goal you're working towards?",
       "Write about a challenge you're currently facing.",
       "What are you grateful for right now?" >>

\* Math.random() returns a value in [0, 1): here n / RandomSteps for the
\* n of MathRandom.
RandomSteps == 10
MathRandom == 0..(RandomSteps - 1)

CeilOfProduct(random, length) ==
    (random * length + RandomSteps - 1) \div RandomSteps

\* Math.floor(Math.random() * genericPrompts.length)
FloorOfProduct(random, length) == (random * length) \div RandomSteps

\* array[index] of JavaScript: zero-based, undefined outside the array.
At(array, index) ==
    IF index + 1 \in 1..Len(array) THEN array[index + 1] ELSE Missing

\* What generateWritingPrompt({ pastEntries }) can do: resolve with the
\* flow's output, or throw.
FlowOutcomes == { [ok |-> TRUE, prompt |-> "Write about your week."],
                  [ok |-> FALSE, prompt |-> Missing] }

\* getWritingPromptAction(pastEntries): the built-in list when the string is
\* empty, the flow otherwise; whatever is thrown becomes { error }.
getWritingPromptAction(pastEntries, random, outcome) ==
    IF pastEntries = ""
    THEN [pastEntries |-> pastEntries, flowInputs |-> <<>>,
          result |-> [prompt |-> At(genericPrompts,
                                    FloorOfProduct(random,
                                                   Len(genericPrompts))),
                      error |-> Missing]]
    ELSE [pastEntries |-> pastEntries, flowInputs |-> <<pastEntries>>,
          result |-> IF outcome.ok
                     THEN [prompt |-> outcome.prompt, error |-> Missing]
                     ELSE [prompt |-> Missing,
                           error |-> "Failed to generate writing prompt."]]

\* entries.slice(0, end)
Slice(es, end) == SubSeq(es, 1, IF Len(es) < end THEN Len(es) ELSE end)

\* .slice(0, 5)
ContextSize == 5

\* .map(e => `Title: ${e.title}\n${e.content}`).join('\n---\n')
RECURSIVE PastEntriesText(_)
PastEntriesText(es) ==
    IF Len(es) = 0 THEN ""
    ELSE "Title: " \o Head(es).title \o "\n" \o Head(es).content \o
         (IF Len(es) = 1 THEN "" ELSE "\n---\n" \o PastEntriesText(Tail(es)))

\* form.setValue('content', ...) when the result carries a prompt.
WithPrompt(values, result) ==
    IF result.prompt # Missing /\ result.prompt # ""
    THEN [values EXCEPT !.content =
              IF @ # "" THEN @ \o "\n\n" \o result.prompt
              ELSE result.prompt]
    ELSE values

\* The body of the three handlers once the context entries are chosen.
\* Math.random is drawn only for an empty text, the flow only runs for a
\* non-empty one.
RequestPrompt(context) ==
    /\ LET text == PastEntriesText(context)
       IN  \/ /\ text = ""
              /\ \E random \in MathRandom :
                     promptAction' =
                         getWritingPromptAction(text, random,
                                                [ok |-> FALSE,
                                                 prompt |-> Missing])
           \/ /\ text # ""
              /\ \E outcome \in FlowOutcomes :
                     promptAction' = getWritingPromptAction(text, 0, outcome)
    /\ formValues' = WithPrompt(formValues, promptAction'.result)
    /\ onlyAdds' = FALSE
    /\ Called
    /\ UNCHANGED <<subscribed, backend, entries, tags, initialized, remote,
                   pending, settled, subs, loads, storage, errors, used,
                   returned, persisted, issued, searchTerm, selectedDate>>

\* handleGeneratePrompt / getAIWritingSuggestion of the new-entry pages.
handleGeneratePrompt ==
    /\ RequestPrompt(Slice(entries, ContextSize))
    /\ last' = Step("handleGeneratePrompt", "", <<>>)

\* getAIWritingSuggestion of the edit page for the entry entryId.
getAIWritingSuggestion(entryId) ==
    /\ RequestPrompt(Slice(SelectSeq(entries, LAMBDA e : e.id # entryId),
                           ContextSize))
    /\ last' = Step("getAIWritingSuggestion", entryId, <<>>)

\* Stores the pages are opened on: up to six entries written on six days,
\* in any order.
MaxPromptEntries == 6

PromptPool ==
    { Entry("a",  "2024-01-01", "T",    "C",   <<>>),
      Entry("b",  "2024-01-02", "T",    "row", <<>>),
      Entry("g1", "2024-01-03", "U",    "C",   <<>>),
      Entry("g2", "2024-01-04", "U",    "row", <<>>),
      Entry("g3", "2024-01-05", "Work", "C",   <<>>),
      Entry("g4", "2024-01-06", "Work", "row", <<>>) }

PromptStores ==
    {es \in UNION {[1..n -> PromptPool] : n \in 0..MaxPromptEntries} :
        \A i, j \in 1..Len(es) : i # j => es[i].id # es[j].id}

Next ==
    \/ Initialize(User)
    \/ Snapshot
    \/ SnapshotError
    \/ Unsubscribe
    \/ LoadResolve
    \/ LoadReject
    \/ \E draft \in AddDrafts : AddEntry(draft)
    \/ \E id \in KnownIds : \E e \in UpdateArgs(id) : UpdateEntry(e)
    \/ \E id \in KnownIds : DeleteEntry(id)
    \/ \E c \in ImportLists : ImportEntries(c)
    \/ \E file \in {ExportFile, BrokenFile, ObjectFile} :
           HandleFileChange(file)
    \/ InitializeLocalThrows
    \/ AddEntryLocalThrows
    \/ \E op \in {"updateEntry", "deleteEntry", "importEntries"} :
           SaveThrows(op)
    \/ ImportThenLive
    \/ ImportCatchLive
    \/ ImportResumeOneShot
    \/ ImportThrowOneShot
    \/ WriteAccept
    \/ WriteReject

Spec == Init /\ [][Next]_vars

\* A local store that has loaded the entries its storage held, and a blank
\* form.
InitPrompt ==
    /\ backend = "local"
    /\ entries \in PromptStores
    /\ tags = getTagsFromEntries(entries)
    /\ initialized = TRUE
    /\ remote = EmptyRemote
    /\ storage = Stored(entries)
    /\ pending = <<>>
    /\ settled = <<>>
    /\ subs = 0
    /\ loads = 0
    /\ errors = <<>>
    /\ used = {}
    /\ returned = <<>>
    /\ onlyAdds = FALSE
    /\ calls = 1
    /\ persisted = {}
    /\ issued = 1
    /\ rejected = <<>>
    /\ searchTerm = <<>>
    /\ selectedDate = Unset
    /\ formValues = BlankForm
    /\ promptAction = NoPrompt
    /\ subscribed = <<>>
    /\ last = Step("initialize", "", <<>>)

NextPrompt ==
    \/ handleGeneratePrompt
    \/ \E entryId \in IdsOf(entries) : getAIWritingSuggestion(entryId)

SpecPrompt == InitPrompt /\ [][NextPrompt]_vars

\* The remote stores when the backend accepts every write and delivers what
\* the store asked for: weak fairness of the backend's answer, of the
\* snapshot callback of a live subscription and of the resolution of a load.
InitSync == Init /\ IsRemote

InitializeRemote(userId) ==
    InitializeLive(userId) \/ InitializeOneShot(userId)

NextSync ==
    \/ InitializeRemote(User)
    \/ Unsubscribe
    \/ Snapshot
    \/ LoadResolve
    \/ \E draft \in AddDrafts : AddEntryRemote(draft)
    \/ \E id \in KnownIds : \E e \in UpdateArgs(id) : UpdateEntryRemote(e)
    \/ \E id \in KnownIds : DeleteEntryRemote(id)
    \/ WriteAccept

SpecSync ==
    /\ InitSync
    /\ [][NextSync]_vars
    /\ WF_vars(WriteAccept)
    /\ WF_vars(Snapshot)
    /\ WF_vars(LoadResolve)

\* Imports of files that hold an object without tags, in the three variants
\* of the store.
NextImport ==
    \/ Initialize(User)
    \/ Snapshot
    \/ LoadResolve
    \/ \E c \in TaglessLists : ImportEntries(c)
    \/ ImportThenLive
    \/ ImportResumeOneShot
    \/ WriteAccept

SpecImport == Init /\ [][NextImport]_vars

\* The two setters among the actions that fill the store and persist it, in
\* the three variants of the store.
NextSetters ==
    \/ Initialize(User)
    \/ Snapshot
    \/ LoadResolve
    \/ \E draft \in AddDrafts : AddEntry(draft)
    \/ WriteAccept
    \/ \E term \in Terms : SetSearchTerm(term)
    \/ \E date \in SelectedDates : SetSelectedDate(date)

SpecSetters == Init /\ [][NextSetters]_vars

\* A browser in which two users sign in one after the other: the layout's
\* effect calls initialize with the signed-in user's id and runs the handle
\* it got back when the user changes.
NextUsers ==
    \/ \E userId \in Users : InitializeRemote(userId)
    \/ Snapshot
    \/ Unsubscribe
    \/ LoadResolve

SpecUsers == InitSync /\ [][NextUsers]_vars


----------------------------------------------------------------------------
(* Properties *)

Range(f) == {f[i] : i \in DOMAIN f}

ReturnedIds == Range(returned)

\* C1: starting from an empty store, after n addEntry calls and no other
\* action the store holds exactly n entries, and the n ids returned by the
\* calls are pairwise distinct.
C1_AddCountAndDistinctIds ==
    onlyAdds =>
        /\ Len(entries) = Len(returned)
        /\ \A i, j \in 1..Len(returned) : i # j => returned[i] # returned[j]

C1_Witness == onlyAdds /\ Len(returned) >= 2 /\ Len(entries) >= 2

\* C2: in every reachable state no two entries of the store have the same id.
C2_UniqueIds ==
    \A i, j \in 1..Len(entries) : i # j => entries[i].id # entries[j].id

\* An import whose candidates repeat an id was merged into a store that
\* holds another entry.
C2_Witness ==
    /\ last.op = IF backend = "local" THEN "importEntries" ELSE "importCommit"
    /\ last.cands = <<CandA, CandA2>>
    /\ Len(entries) >= 2

\* C3: the tags field is the sorted, duplicate-free union of the tags of
\* the entries in the store.
C3_TagIndex ==
    /\ \A i, j \in 1..Len(tags) : i < j => StrLess(tags[i], tags[j])
    /\ Range(tags) = UNION {Range(entries[i].tags) : i \in 1..Len(entries)}

\* Two entries share a tag and one of them lists its tags out of order.
C3_Witness ==
    /\ Len(entries) >= 2
    /\ \E i, j \in 1..Len(entries) :
          /\ i # j
          /\ TagX \in Range(entries[i].tags)
          /\ Len(entries[j].tags) >= 2
          /\ entries[j].tags[1] = TagY
          /\ TagX \in Range(entries[j].tags)
    /\ tags = <<TagX, TagY>>

\* The candidate of the list that a merge by id stores for the id: the last
\* one carrying it.
LastWithId(valid, id) ==
    valid[CHOOSE k \in 1..Len(valid) :
              valid[k].id = id /\ \A l \in (k + 1)..Len(valid) : valid[l].id # id]

MergedById(old, valid, new) ==
    /\ \A id \in IdsOf(valid) :
          /\ Cardinality({j \in 1..Len(new) : new[j].id = id}) = 1
          /\ \E j \in 1..Len(new) : new[j] = LastWithId(valid, id)
    /\ \A i \in 1..Len(old) :
          old[i].id \notin IdsOf(valid) => \E j \in 1..Len(new) : new[j] = old[i]
    /\ Len(new) = Cardinality(IdsOf(old) \cup IdsOf(valid))

\* C4: importEntries merges by id. When the import is applied to the
\* entries (the commit callback of the live store, the call itself in the
\* local store), every accepted candidate id is held exactly once, with the
\* value of the last candidate carrying it, and the entries with other ids
\* are unchanged.
C4_ImportMergesById ==
    [][ /\ ImportThenLive =>
              MergedById(entries, Head(settled).valid, entries')
        /\ \A c \in ImportLists :
              ImportEntriesLocal(c) =>
                  MergedById(entries, ValidEntries(c), entries')
      ]_vars

\* An import with two candidates for id "a" replaced the entry "a" of a
\* store that also holds an entry the import does not name.
C4_Witness ==
    /\ backend \in {"live", "local"}
    /\ last.op = IF backend = "local" THEN "importEntries" ELSE "importCommit"
    /\ last.cands = <<CandA, CandA2>>
    /\ Len(entries) >= 2
    /\ entries[1] = CandA2
    /\ entries[2].id # "a"


\* The entries that import files can bring into the store.
ImportedValues == UNION {Range(ValidEntries(c)) : c \in ImportLists}

ShowsOnlyPersistedImports ==
    IsRemote =>
        \A i \in 1..Len(entries) :
            entries[i] \in ImportedValues => entries[i] \in persisted

\* C5: in the remote stores importEntries changes entries and tags only
\* after the batch commit succeeded: the call itself leaves them alone, a
\* failed commit leaves them alone and surfaces an error, and the store
\* never shows an imported entry that the collection has not held.
C5_ImportAtomic ==
    /\ []ShowsOnlyPersistedImports
    /\ [][ /\ \A c \in ImportLists :
                 (ImportEntriesLive(c) \/ ImportEntriesOneShot(c)) =>
                     UNCHANGED <<entries, tags>>
           /\ (ImportCatchLive \/ ImportThrowOneShot) =>
                 /\ UNCHANGED <<entries, tags>>
                 /\ Len(errors') = Len(errors) + 1
                 /\ errors'[Len(errors')].operation = "write"
         ]_vars

\* The commit of an import of entry "b" failed: the error is out and the
\* store does not show "b".
C5_Witness ==
    /\ IsRemote
    /\ last.op = "importFailed"
    /\ last.cands = <<CandB, NoTitle>>
    /\ ~HasId(entries, "b")
    /\ Len(errors) = 1
    /\ errors[1].operation = "write"

\* A candidate importEntries accepts, in the words of the contract.
Acceptable(e) ==
    /\ e.id \notin {"", Missing}
    /\ e.date \notin {"", Missing}
    /\ e.title \notin {"", Missing}
    /\ e.content # Missing

AcceptedOf(cands) == SelectSeq(cands, Acceptable)

OnlyAcceptedAdded(old, cands, new) ==
    /\ IdsOf(new) = IdsOf(old) \cup IdsOf(AcceptedOf(cands))
    /\ \A j \in 1..Len(new) :
          new[j] \in Range(old) \cup Range(AcceptedOf(cands))

OnlyAcceptedWritten(r, cands, rNew) ==
    /\ \A d \in Ids :
          rNew[d] # r[d] =>
              \E k \in 1..Len(cands) :
                  Acceptable(cands[k]) /\ cands[k].id = d /\ rNew[d] = cands[k]
    /\ \A k \in 1..Len(cands) :
          Acceptable(cands[k]) => rNew[cands[k].id] # NoDoc

\* C6: importEntries accepts exactly the candidates with a non-empty id,
\* date and title and a defined content (the empty string included); only
\* these are put into the batch, written to the collection or the local
\* storage, and added to the entries.
C6_ImportAcceptsExactlyValid ==
    [][ /\ \A c \in ImportLists :
              /\ (ImportEntriesLive(c) \/ ImportEntriesOneShot(c)) =>
                    pending'[Len(pending')].valid = AcceptedOf(c)
              /\ ImportEntriesLocal(c) =>
                    /\ OnlyAcceptedAdded(entries, c, entries')
                    /\ storage' = Stored(entries')
        /\ (WriteAccept /\ Head(pending).kind = "batch") =>
              OnlyAcceptedWritten(remote, Head(pending).cands, remote')
        /\ ImportThenLive =>
              OnlyAcceptedAdded(entries, Head(settled).cands, entries')
      ]_vars

\* A list with a candidate of empty content and a candidate without title
\* was imported: the first is in the store, the second is not.
C6_Witness ==
    /\ last.op = IF backend = "local" THEN "importEntries" ELSE "importCommit"
    /\ last.cands = <<CandB, NoTitle>>
    /\ \E i \in 1..Len(entries) : entries[i] = CandB
    /\ \A i \in 1..Len(entries) : entries[i] # NoTitle

\* C7: updateEntry with an id that matches no stored entry leaves the
\* entries unchanged.
C7_UnknownUpdateKeepsEntries ==
    [][ \A id \in Ids : \A e \in UpdateArgs(id) :
            (UpdateEntry(e) /\ ~HasId(entries, id)) => entries' = entries
      ]_vars

\* updateEntry ran for an id the non-empty store does not hold.
C7_Witness ==
    /\ last.op = "updateEntry"
    /\ ~HasId(entries, last.id)
    /\ Len(entries) >= 1

\* C8: updateEntry with an id that matches no stored entry issues no write
\* to the remote collection.
C8_UnknownUpdateIssuesNoWrite ==
    [][ \A id \in Ids : \A e \in UpdateArgs(id) :
            (UpdateEntryRemote(e) /\ ~HasId(entries, id)) =>
                UNCHANGED <<pending, remote>>
      ]_vars

\* C9: deleteEntry is idempotent. After deleteEntry(id), a second
\* deleteEntry(id) would compute the entries and tags the store already
\* has; and deleteEntry with an id not in the store changes neither.
C9_DeleteIdempotent ==
    [][ \A id \in Ids :
            DeleteEntry(id) =>
                /\ RemoveById(entries', id) = entries'
                /\ getTagsFromEntries(RemoveById(entries', id)) = tags'
                /\ ~HasId(entries, id) =>
                       (entries' = entries /\ tags' = tags)
      ]_vars

\* deleteEntry removed an entry that addEntry had created, from a store
\* that holds another entry.
C9_Witness ==
    /\ last.op = "deleteEntry"
    /\ last.id \in ReturnedIds
    /\ ~HasId(entries, last.id)
    /\ Len(entries) >= 1

\* The collection holds the entry that addEntry created under id g.
Confirmed(g) == \E d \in Ids : remote[d] # NoDoc /\ remote[d].id = g

\* C10: the id addEntry returned is stable: when the confirmed collection
\* is delivered to the store (snapshot or load), an entry the store holds
\* under the returned id, and that the collection holds, is still held
\* under that id.
C10_ReturnedIdStable ==
    [][ (Snapshot \/ LoadResolve) =>
            \A g \in ReturnedIds :
                (HasId(entries, g) /\ Confirmed(g)) => HasId(entries', g)
      ]_vars


\* C11: over any sequence of initialize calls, also calls made before the
\* first load or snapshot arrived, at most one load is issued and at most
\* one subscription is established.
C11_InitializeLoadsOnce == issued <= 1


\* C12: after the backend rejected the write of addEntry, updateEntry or
\* deleteEntry, the optimistic change stays in the in-memory entries in every
\* later state until another store action changes it, also when a snapshot
\* of the collection is delivered afterwards.
C12_RejectedChangeStays ==
    \A i \in 1..Len(rejected) : Shows(rejected[i], entries)


\* C13: in every remote variant of the store a permission failure of
\* initialize or importEntries is never thrown out of the store action; it
\* is reported as a 'permission-error' event that carries the operation kind
\* ('list' or 'write') and the path users/<userId>/diaryEntries.
C13_PermissionFailureIsEvent ==
    IsRemote =>
        \A i \in 1..Len(errors) :
            /\ errors[i].via = "event"
            /\ errors[i].operation \in {"list", "write"}
            /\ errors[i].path = CollectionPath


\* C14: in the local backend a failure of the storage read or write during
\* initialize, addEntry, updateEntry, deleteEntry or importEntries is caught
\* inside the store: no exception crosses the action boundary.
C14_LocalFailuresCaught ==
    backend = "local" =>
        \A i \in 1..Len(errors) : errors[i].via # "thrown"


----------------------------------------------------------------------------
(* The filtered view, stated without the code's helpers *)

CasePairs == {<<"C", "c">>, <<"T", "t">>, <<"U", "u">>, <<"W", "w">>}

SameLetter(a, b) == a = b \/ <<a, b>> \in CasePairs \/ <<b, a>> \in CasePairs

\* term occurs in text when letter case is ignored.
OccursIn(term, text) ==
    \E k \in 0..(Len(text) - Len(term)) :
        \A j \in 1..Len(term) : SameLetter(text[k + j], term[j])

TermMatches(e, term) ==
    \/ term = <<>>
    \/ OccursIn(term, Text(e.title))
    \/ OccursIn(term, Text(e.content))
    \/ \E i \in 1..Len(e.tags) : OccursIn(term, e.tags[i])

DayOf(t) == t \div HoursPerDay

DayMatches(e, date) ==
    date = Unset \/ DayOf(ParseISO(e.date)) = DayOf(date[1])

Wanted == {i \in 1..Len(entries) :
              /\ TermMatches(entries[i], searchTerm)
              /\ DayMatches(entries[i], selectedDate)}

View == useFilteredEntries(entries, searchTerm, selectedDate)

\* C15: the filtered view contains exactly the stored entries for which
\* the search term, compared case-insensitively, is a substring of the
\* title, the content or a tag (an empty term matches every entry) and
\* selectedDate is unset or on the same calendar day as the entry's date.
C15_FilteredViewExact ==
    /\ Range(View) = {entries[i] : i \in Wanted}
    /\ Len(View) = Cardinality(Wanted)

\* The term "work" is set, an entry that has it only in a tag is in the
\* view and an entry without it is not.
C15_Witness ==
    /\ searchTerm = <<"w", "o", "r", "k">>
    /\ last.op = "setSearchTerm"
    /\ ViewA \in Range(View)
    /\ ViewC \in Range(entries) \ Range(View)

\* C16: with an empty search term and no selected date the filtered view
\* returns every stored entry exactly once, and of two consecutive entries
\* of the result the first one's date is not earlier than the second one's.
C16_UnfilteredViewSorted ==
    (searchTerm = <<>> /\ selectedDate = Unset) =>
        /\ Len(View) = Len(entries)
        /\ \A i \in 1..Len(entries) :
               Cardinality({j \in 1..Len(View) : View[j] = entries[i]}) = 1
        /\ \A i \in 1..(Len(View) - 1) :
               ParseISO(View[i].date) >= ParseISO(View[i + 1].date)

\* Three entries stored in another order than the view shows them, after
\* the filters were cleared again.
C16_Witness ==
    /\ searchTerm = <<>>
    /\ selectedDate = Unset
    /\ last.op \in {"setSearchTerm", "setSelectedDate"}
    /\ Len(entries) >= 3
    /\ View # entries


\* A remote store applies the import of a file that holds what the store
\* holds; the one-shot store, which merges before it awaits the commit,
\* merged with these same entries.
AppliesOwnExport ==
    /\ last'.op = "importCommit"
    /\ last'.cands = ImportedEntries(ExportFile)
    /\ backend = "oneshot" => Head(settled).stale = entries

\* C17: importing the file produced by exporting the store's entries back
\* into the same store leaves the set of entry ids unchanged, and importing
\* it into a store that holds nothing yields the same set of entry ids.
C17_ExportImportRoundTrip ==
    [][LET imported == ImportedEntries(ExportFile)
       IN  /\ (backend = "local" /\ HandleFileChange(ExportFile)) =>
                   IdsOf(entries') = IdsOf(entries)
           /\ AppliesOwnExport => IdsOf(entries') = IdsOf(entries)
           /\ HandleFileChange(ExportFile) =>
                   IdsOf(MergeById(<<>>, ValidEntries(imported)))
                       = IdsOf(entries)]_vars

\* The store has applied the import of its own export of two entries or
\* more; one has an id addEntry generated, which no other file holds.
C17_Witness ==
    /\ \/ backend = "local" /\ last.op = "importEntries"
       \/ last.op = "importCommit"
    /\ last.cands = ImportedEntries(ExportFile)
    /\ Len(entries) >= 2
    /\ IdsOf(entries) \cap GenIds # {}

\* C18: a malformed import is handled at the element level; the import as
\* a whole fails only when the file cannot be parsed as JSON, not when it
\* parses to something that is not an array.
C18_OnlyUnparsableFileFails ==
    last.op = "importFileFailed" => last.id = "unparsable"


----------------------------------------------------------------------------
(* The tags of a tag string, stated without the code's helpers *)

\* The positions that bound the segments of str: before it, behind it, and
\* its commas.
Cuts(str) == {0, Len(str) + 1} \cup {i \in 1..Len(str) : str[i] = ","}

NextCut(str, a) ==
    CHOOSE b \in Cuts(str) : b > a /\ \A c \in Cuts(str) : c > a => b <= c

\* The positions of the segment behind cut a that hold no blank.
Inked(str, a) == {k \in (a + 1)..(NextCut(str, a) - 1) : str[k] # " "}

Starts(str) == {a \in Cuts(str) \ {Len(str) + 1} : Inked(str, a) # {}}

Least(S) == CHOOSE x \in S : \A y \in S : x <= y
Greatest(S) == CHOOSE x \in S : \A y \in S : x >= y

\* One tag for every segment that is not blank, from its first to its last
\* character that is no blank, in the order of the segments.
ExpectedTags(str) ==
    [n \in 1..Cardinality(Starts(str)) |->
        LET a == CHOOSE x \in Starts(str) :
                     Cardinality({y \in Starts(str) : y < x}) = n - 1
        IN  SubSeq(str, Least(Inked(str, a)), Greatest(Inked(str, a)))]

\* The entry addEntry pushed.
Created == entries[Len(entries)]

TrimmedTags(t) ==
    \A i \in 1..Len(t) :
        /\ t[i] # <<>>
        /\ t[i][1] # " "
        /\ t[i][Len(t[i])] # " "

\* C19 as claimed: the tags of the entry addEntry creates hold no empty
\* string, no tag with leading or trailing whitespace, and no tag twice.
C19_AddEntryTagsDeduplicated ==
    last.op = "addEntry" =>
        /\ TrimmedTags(Created.tags)
        /\ \A i, j \in 1..Len(Created.tags) :
               i # j => Created.tags[i] # Created.tags[j]

\* C19, amended: the tags of the entry addEntry creates are the segments of
\* the tag string between its commas, each without its leading and trailing
\* whitespace, the empty ones left out, in the order of the string; a tag
\* the string names twice is kept twice.
C19_AddEntryTagsTrimmed ==
    last.op = "addEntry" =>
        /\ TrimmedTags(Created.tags)
        /\ Created.tags = ExpectedTags(formValues.tags)

\* " x,x" was submitted: the blank is gone and the tag x is there twice.
C19_Witness ==
    /\ last.op = "addEntry"
    /\ formValues.tags = <<" ", "x", ",", "x">>
    /\ Created.tags = <<TagX, TagX>>

\* C20: the date of an entry is immutable after creation: updateEntry
\* leaves the date stored under the id as it was, whatever date its
\* argument carries.
C20_DateImmutable ==
    [][\A id \in Ids : \A e \in UpdateArgs(id) :
           UpdateEntry(e) =>
               \A i \in 1..Len(entries) :
                   entries[i].id = e.id => entries'[i].date = entries[i].date
      ]_vars

----------------------------------------------------------------------------
(* The setters *)

\* What a persistence call would touch: the stored blob, the writes sent to
\* the backend and the collection, the subscriptions and loads.
Persistence == <<storage, remote, pending, settled, subs, loads, issued>>

\* C22: setSearchTerm changes only searchTerm and setSelectedDate only
\* selectedDate: the other one, entries, tags, the initialized flag and the
\* persisted data (local blob, remote collection) are unchanged and no
\* persistence call is issued.
C22_SettersChangeOnlyTheirField ==
    [][ /\ last'.op = "setSearchTerm" =>
              UNCHANGED <<selectedDate, entries, tags, initialized,
                          Persistence>>
        /\ last'.op = "setSelectedDate" =>
              UNCHANGED <<searchTerm, entries, tags, initialized,
                          Persistence>>
      ]_vars

\* Both setters have run, with a value each, on a store that holds an entry
\* and has something persisted or on its way.
C22_Witness ==
    /\ last.op \in {"setSearchTerm", "setSelectedDate"}
    /\ searchTerm # <<>>
    /\ selectedDate # Unset
    /\ Len(entries) > 0
    /\ storage.present \/ Len(pending) > 0

----------------------------------------------------------------------------
(* updateEntry of a stored id *)

\* The collection once the backend has accepted every write it still holds.
RECURSIVE ApplyAll(_, _)
ApplyAll(r, ws) ==
    IF Len(ws) = 0 THEN r
    ELSE ApplyAll(ApplyWrite(r, Head(ws)), Tail(ws))

\* after is before with the record of e's id replaced by e, and nothing
\* else: the same length, every other position as it was.
ReplacedExactly(before, after, e) ==
    /\ Len(after) = Len(before)
    /\ HasId(before, e.id)
    /\ \A i \in 1..Len(before) :
           after[i] = IF before[i].id = e.id THEN e ELSE before[i]

\* The in-memory half of C21.
UpdateReplacesInMemory ==
    [][\A id \in Ids : \A e \in UpdateArgs(id) :
           (UpdateEntry(e) /\ HasId(entries, id)) =>
               ReplacedExactly(entries, entries', EntryData(e))
      ]_vars

\* The local half of C21: the stored blob.
UpdateReplacesInStorage ==
    [][\A id \in Ids : \A e \in UpdateArgs(id) :
           (UpdateEntryLocal(e) /\ HasId(entries, id)) =>
               ReplacedExactly(getEntriesFromStorage(storage),
                               getEntriesFromStorage(storage'), EntryData(e))
      ]_vars

\* C21: updateEntry with an id that matches a stored entry replaces exactly
\* that record with the given value, tags normalized: the number of entries
\* is unchanged and every entry with a different id is unchanged, in memory
\* and in the persisted data (the stored blob, or the remote collection once
\* the write is accepted).
C21_UpdateReplacesExactlyOne ==
    [][\A id \in Ids : \A e \in UpdateArgs(id) :
           (UpdateEntry(e) /\ HasId(entries, id)) =>
               /\ ReplacedExactly(entries, entries', EntryData(e))
               /\ backend = "local" =>
                     ReplacedExactly(getEntriesFromStorage(storage),
                                     getEntriesFromStorage(storage'),
                                     EntryData(e))
               /\ IsRemote =>
                     ReplacedExactly(
                         SnapshotEntries(ApplyAll(remote, pending)),
                         SnapshotEntries(ApplyAll(remote, pending')),
                         EntryData(e))
      ]_vars

----------------------------------------------------------------------------
(* The prompt generator *)

PromptSteps == {"handleGeneratePrompt", "getAIWritingSuggestion"}

\* C23: getWritingPromptAction called with an empty string returns
\* { prompt: p } with p one of the five built-in prompts and does not invoke
\* generateWritingPrompt; called with a non-empty string it invokes
\* generateWritingPrompt exactly once, with that string.
C23_EmptyInputUsesBuiltInPrompt ==
    last.op \in PromptSteps =>
        IF promptAction.pastEntries = ""
        THEN /\ promptAction.result.prompt \in Range(genericPrompts)
             /\ promptAction.result.error = Missing
             /\ promptAction.flowInputs = <<>>
        ELSE promptAction.flowInputs = <<promptAction.pastEntries>>

\* Both branches were taken: a call with entries to draw on put the flow's
\* prompt into the form, and a later call with none added the last of the
\* built-in prompts.
C23_Witness ==
    /\ last.op \in PromptSteps
    /\ promptAction.pastEntries = ""
    /\ promptAction.result.prompt = genericPrompts[5]
    /\ formValues.content =
           "Write about your week." \o "\n\n" \o genericPrompts[5]

\* The n entries of es with the latest dates (all of es if it has fewer).
Latest(es, n) ==
    {e \in Range(es) :
        Cardinality({f \in Range(es) :
                        ParseISO(f.date) > ParseISO(e.date)}) < n}

\* Every order the entries of the set S can be put in.
RECURSIVE Arrangements(_)
Arrangements(S) ==
    IF S = {} THEN {<<>>}
    ELSE UNION {{<<x>> \o rest : rest \in Arrangements(S \ {x})} : x \in S}

\* The entries the page can draw on: all of them, or on the edit page all
\* but the one being edited.
Available ==
    IF last.op = "getAIWritingSuggestion"
    THEN SelectSeq(entries, LAMBDA e : e.id # last.id)
    ELSE entries

\* C24: the text passed to the prompt generator is built from the at most
\* five entries with the latest dates among the stored entries (on the edit
\* page: among the others than the one edited), whatever order the store
\* holds them in.
C24_PromptUsesLatestEntries ==
    last.op \in PromptSteps =>
        promptAction.pastEntries \in
            {PastEntriesText(context) :
                context \in Arrangements(Latest(Available, ContextSize))}

----------------------------------------------------------------------------
(* Eventual consistency of the remote stores *)

\* The in-memory entries and the remote collection hold the same ids with
\* the same field values.
Consistent ==
    /\ \A i \in 1..Len(entries) :
           /\ entries[i].id \in Ids
           /\ remote[entries[i].id] # NoDoc
           /\ \A f \in {"date", "title", "content", "tags"} :
                  entries[i][f] = remote[entries[i].id][f]
    /\ \A id \in Ids : remote[id] # NoDoc => HasId(entries, id)

\* The store gets the confirmed state delivered: from some point on a live
\* subscription is in place, or the one-shot load has resolved.
Delivering == <>[](subs > 0 \/ (backend = "oneshot" /\ initialized))

\* The live half of C25.
LiveStoreConverges ==
    (backend = "live" /\ Delivering) => <>[]Consistent

\* C25: eventual consistency of the remote stores. If every write of
\* addEntry, updateEntry and deleteEntry is eventually accepted and the
\* confirmed state is delivered to the store, then once the user's actions
\* have stopped the in-memory entries eventually equal the remote collection
\* and stay equal.
C25_EventuallyConsistent == Delivering => <>[]Consistent

----------------------------------------------------------------------------
(* importEntries and the actions called while its batch is being committed *)

\* The records es holds under the id.
RecordsOf(es, id) == SelectSeq(es, LAMBDA e : e.id = id)

\* The step applies a committed import right after an addEntry, updateEntry
\* or deleteEntry that was called while the import was waiting, and keeps
\* what that call did to an id the import does not carry; the imported ids
\* are in the store.
KeepsConcurrentChange ==
    (/\ last.op \in {"addEntry", "updateEntry", "deleteEntry"}
     /\ last'.op = "importCommit") =>
        LET imported == IdsOf(Head(settled).valid)
        IN  /\ last.id \notin imported =>
                   RecordsOf(entries', last.id) = RecordsOf(entries, last.id)
            /\ \A id \in imported : HasId(entries', id)

\* The live half of C26 (the then callback reads get().entries).
LiveImportKeepsConcurrentChange ==
    [][backend = "live" => KeepsConcurrentChange]_vars

\* C26: an entry added by addEntry while an importEntries call is waiting
\* for its batch commit is not lost: once the import's in-memory update is
\* applied the store holds that entry as well as the imported ones; the same
\* for a concurrent updateEntry or deleteEntry of an id that is not imported.
C26_ImportKeepsConcurrentChange == [][KeepsConcurrentChange]_vars

----------------------------------------------------------------------------
(* The local store and its storage *)

StoreActions == {"addEntry", "updateEntry", "deleteEntry", "importEntries"}

\* C27: in the local backend an addEntry, deleteEntry, updateEntry or
\* importEntries invoked before initialize has run does not erase entries
\* already persisted: every entry that was in the stored blob before the
\* action and was not the target of a delete is still in the blob (under
\* its id) after it.
C27_EarlyActionKeepsStoredEntries ==
    [][(/\ backend = "local"
        /\ ~initialized
        /\ storage.readable
        /\ last'.op \in StoreActions) =>
           \A id \in IdsOf(getEntriesFromStorage(storage)) :
               \/ last'.op = "deleteEntry" /\ last'.id = id
               \/ HasId(getEntriesFromStorage(storage'), id)
      ]_vars

----------------------------------------------------------------------------
(* The tags of stored entries *)

\* C29: every entry held by the store has a tags value that is a list of
\* strings, after any sequence of operations including importEntries of
\* candidates that pass its validation; so recomputing the tag index and
\* evaluating the filtered view never fail on a stored entry.
C29_StoredTagsAreLists ==
    /\ \A i \in 1..Len(entries) : entries[i].tags # NoTags
    /\ \A i \in 1..Len(tags) : tags[i] # <<Missing>>
    /\ ~FilterThrows(entries)

\* C28: in the local backend, once initialize has run, the entry list
\* persisted under the storage key equals the in-memory entries (same
\* entries, same order) after every addEntry, updateEntry, deleteEntry and
\* importEntries, so a fresh initialize in a new process reproduces the
\* in-memory state.
C28_StorageMirrorsEntries ==
    (backend = "local" /\ initialized) =>
        getEntriesFromStorage(storage) = entries

\* An initialized local store imported a file on top of an entry it had
\* created, and the blob under the key was written.
C28_Witness ==
    /\ backend = "local"
    /\ initialized
    /\ last.op = "importEntries"
    /\ storage.present
    /\ Len(entries) >= 2
    /\ IdsOf(entries) \cap GenIds # {}

(***************************************************************************)
(* Switching users                                                         *)
(***************************************************************************)

\* The store listens to the collection of the user it was last initialized
\* for.
SubscribedTo(userId) ==
    \E k \in 1..Len(subscribed') : subscribed'[k] = userId

\* Before the first snapshot the store is not yet marked initialized, and a
\* handle run that early leaves the next initialize free to subscribe.
EarlySwitchSubscribes ==
    [][(/\ last.op = "unsubscribe"
        /\ last'.op = "initialize"
        /\ last'.id # last.id
        /\ ~initialized)
       => SubscribedTo(last'.id)]_vars

\* C30: when the unsubscribe handle of the subscription for one user has
\* been invoked and initialize is then called for a different user, a
\* subscription for that user's collection is established (so that the
\* entries come to reflect that collection instead of remaining the first
\* user's).
C30_InitializeFollowsUserSwitch ==
    [][(/\ last.op = "unsubscribe"
        /\ last'.op = "initialize"
        /\ last'.id # last.id)
       => SubscribedTo(last'.id)]_vars

====
